---- MODULE Spec2Model ----
(***************************************************************************)
(* Model of energinet_functions.py: load_power_data (fetch the Energinet   *)
(* electricity balance, sum it per local hour) and plot_power_system       *)
(* (scale, filter, stack and label the aggregated table).                  *)
(*                                                                         *)
(* Time is counted in whole hours.  An HourDK string 'YYYY-MM-DDTHH:00:00' *)
(* is the pair <<day, hour>>; strings of that fixed width compare          *)
(* lexicographically, which is what KeyLess does.  pd.to_datetime turns    *)
(* the pair into a timestamp (hours since day 0).                          *)
(***************************************************************************)
EXTENDS Integers, Sequences, FiniteSets, TLC

VARIABLES http, jsonErrIsRequestException, loadRes, heap, plotArgs, plotRes

vars == <<http, jsonErrIsRequestException, loadRes, heap, plotArgs, plotRes>>

(***************************************************************************)
(* Bounds of the model.                                                    *)
(***************************************************************************)
MaxRecords == 2
MaxCols == 2

(***************************************************************************)
(* Program constants.                                                      *)
(***************************************************************************)
HoursPerDay == 24
OneDay == 1 * HoursPerDay
TwoWeeks == 14 * HoursPerDay
OneYear == 365 * HoursPerDay

\* JSON null / NaN, and Python's None for an omitted bound: both are kept
\* apart from every number the model uses.
Null == -1
None == -1

(***************************************************************************)
(* Generic helpers.                                                        *)
(***************************************************************************)
RECURSIVE SetSum(_, _)
SetSum(S, f) ==
    IF S = {} THEN 0
    ELSE LET x == CHOOSE y \in S : TRUE IN f[x] + SetSum(S \ {x}, f)

SeqsUpTo(S, n) == UNION {[1..k -> S] : k \in 0..n}

PartialFns(D, R) == UNION {[S -> R] : S \in SUBSET D}

Range(s) == {s[i] : i \in 1..Len(s)}

(***************************************************************************)
(* load_power_data: the endpoint's answer.                                 *)
(***************************************************************************)
Statuses == {200, 304, 500}
HourKeys == {<<0, 1>>, <<0, 2>>, <<1, 0>>}
PriceAreas == {"DK1", "DK2"}
Fields == {"SolarPower", "TotalLoad"}
RawVals(f) == IF f = "SolarPower" THEN {Null, 10, 20} ELSE {5}

\* One flat JSON object of the 'records' array.  A field that is not in the
\* domain of fields is absent from the object; Null is a JSON null.
RawFields ==
    {f \in PartialFns(Fields, {Null, 5, 10, 20}) :
        \A c \in DOMAIN f : f[c] \in RawVals(c)}

RawRecords == [HourDK : HourKeys, PriceArea : PriceAreas, fields : RawFields]

\* The response body: text that is no JSON, a JSON object without 'records',
\* or a JSON object with a 'records' array.
Bodies ==
    {[parses |-> FALSE, hasRecords |-> FALSE, records |-> <<>>],
     [parses |-> TRUE, hasRecords |-> FALSE, records |-> <<>>]}
    \cup [parses : {TRUE}, hasRecords : {TRUE},
          records : SeqsUpTo(RawRecords, MaxRecords)]

HttpAnswers ==
    {[transportOk |-> FALSE, status |-> 0,
      body |-> [parses |-> FALSE, hasRecords |-> FALSE, records |-> <<>>]]}
    \cup [transportOk : {TRUE}, status : Statuses, body : Bodies]

RaiseForStatusClientOnly(status) == 400 <= status /\ status < 500

\* requests.Response.raise_for_status raises HTTPError for 4xx and 5xx only.
RaiseForStatus(status) == 400 <= status /\ status < 600

\* pd.json_normalize: the columns are the union of the keys of the records.
JsonColumns(records) ==
    IF records = <<>> THEN {}
    ELSE {"HourUTC", "HourDK", "PriceArea"}
         \cup UNION {DOMAIN records[i].fields : i \in 1..Len(records)}

\* json_normalize leaves NaN where a record lacks a key or holds null;
\* df.fillna(0) replaces NaN by 0.
FillNa(rec, c) ==
    IF c \in DOMAIN rec.fields /\ rec.fields[c] # Null THEN rec.fields[c] ELSE 0

KeyLess(a, b) == a[1] < b[1] \/ (a[1] = b[1] /\ a[2] < b[2])

\* groupby sorts the distinct group keys ascending.
RECURSIVE SortedKeys(_)
SortedKeys(K) ==
    IF K = {} THEN <<>>
    ELSE LET m == CHOOSE k \in K : \A o \in K \ {k} : KeyLess(k, o)
         IN <<m>> \o SortedKeys(K \ {m})

RECURSIVE GroupSumAllRows(_, _, _)
GroupSumAllRows(records, key, c) ==
    IF records = <<>> THEN 0
    ELSE FillNa(Head(records), c) + GroupSumAllRows(Tail(records), key, c)

\* .sum() of one column over the rows of one group, in row order.
RECURSIVE GroupSum(_, _, _)
GroupSum(records, key, c) ==
    IF records = <<>> THEN 0
    ELSE (IF Head(records).HourDK = key THEN FillNa(Head(records), c) ELSE 0)
         + GroupSum(Tail(records), key, c)

ToDatetime(key) == key[1] * HoursPerDay + key[2]

\* df.drop(['HourUTC', 'PriceArea'], axis=1).groupby('HourDK').sum(), then the
\* index converted with pd.to_datetime.  A table is its column set and its
\* rows in index order.
GroupByHourSum(records) ==
    LET cols == JsonColumns(records) \ {"HourUTC", "PriceArea", "HourDK"}
        keys == SortedKeys({records[i].HourDK : i \in 1..Len(records)})
    IN [cols |-> cols,
        rows |-> [i \in 1..Len(keys) |->
                    [t |-> ToDatetime(keys[i]),
                     vals |-> [c \in cols |-> GroupSum(records, keys[i], c)]]]]

NoTable == [cols |-> {}, rows |-> <<>>]
Raised(kind) == [called |-> TRUE, kind |-> kind, table |-> NoTable]

\* The two except clauses: a RequestException becomes "Error fetching data
\* from API", any other exception "Error processing data".
Wrap(isRequestException) ==
    IF isRequestException THEN Raised("FetchError") ELSE Raised("ProcessingError")

\* The try block, statement by statement.  What response.json() raises on a
\* body that is no JSON depends on the installed requests: from 2.27 on it is
\* requests.exceptions.JSONDecodeError, a RequestException; before, a plain
\* ValueError.  jsonErrIsReqExc is that choice.  data['records'] raises
\* KeyError, and so does df.drop when the frame lacks the dropped columns.
LoadPowerData(h, jsonErrIsReqExc) ==
    IF ~h.transportOk THEN Wrap(TRUE)
    ELSE IF RaiseForStatus(h.status) THEN Wrap(TRUE)
    ELSE IF ~h.body.parses THEN Wrap(jsonErrIsReqExc)
    ELSE IF ~h.body.hasRecords THEN Wrap(FALSE)
    ELSE IF ~({"HourUTC", "PriceArea"} \subseteq JsonColumns(h.body.records))
         THEN Wrap(FALSE)
    ELSE [called |-> TRUE, kind |-> "table",
          table |-> GroupByHourSum(h.body.records)]

NotCalled == [called |-> FALSE, kind |-> "none", table |-> NoTable]

LoadCall ==
    /\ ~loadRes.called
    /\ loadRes' = LoadPowerData(http, jsonErrIsRequestException)
    /\ UNCHANGED <<http, jsonErrIsRequestException, heap, plotArgs, plotRes>>

(***************************************************************************)
(* plot_power_system.                                                      *)
(***************************************************************************)
CallerRef == 1
LocalRef == 2

\* The fixed palette and the Danish display names; unknown columns fall back
\* to gray and to their own name.
Color(column) ==
    CASE column = "SolarPower" -> "#FDB813"
      [] column = "OnshoreWindPower" -> "#00A0DC"
      [] column = "OffshoreWindPower" -> "#2E8B57"
      [] column = "FossilGas" -> "#FF7F50"
      [] column = "FossilHardCoal" -> "#808080"
      [] column = "Biomass" -> "#90EE90"
      [] column = "FossilOil" -> "#8B4513"
      [] column = "Waste" -> "darkred"
      [] OTHER -> "#CCCCCC"

DanishName(column) ==
    CASE column = "OnshoreWindPower" -> "Landvind"
      [] column = "OffshoreWindPower" -> "Havvind"
      [] column = "SolarPower" -> "Sol"
      [] column = "Biomass" -> "Biomasse"
      [] column = "FossilHardCoal" -> "Kul"
      [] column = "FossilGas" -> "Gas"
      [] column = "FossilOil" -> "Olie"
      [] column = "Waste" -> "Affald"
      [] OTHER -> column

DfAlias(h, ref) == [heap |-> h, ref |-> ref]

\* df.copy(): a new table object with the same contents, bound to the local
\* name df.
DfCopy(h, ref) ==
    [heap |-> [r \in DOMAIN h \cup {LocalRef} |->
                  IF r = LocalRef THEN h[ref] ELSE h[r]],
     ref |-> LocalRef]

ScaleEveryColumn(h, ref, tech, factor) ==
    [h EXCEPT ![ref].rows =
        [i \in 1..Len(@) |->
            [@[i] EXCEPT !.vals = [c \in DOMAIN @ |-> @[c] * factor]]]]

\* df[tech] = df[tech] * factor, written into the object df names.
ScaleColumn(h, ref, tech, factor) ==
    [h EXCEPT ![ref].rows =
        [i \in 1..Len(@) |-> [@[i] EXCEPT !.vals[tech] = @ * factor]]]

\* for tech, factor in scale_factors.items(): if tech in df.columns: ...
RECURSIVE ScaleLoop(_, _, _, _)
ScaleLoop(h, ref, sf, todo) ==
    IF todo = {} THEN h
    ELSE LET tech == CHOOSE k \in todo : TRUE
             h1 == IF tech \in h[ref].cols
                   THEN ScaleColumn(h, ref, tech, sf[tech]) ELSE h
         IN ScaleLoop(h1, ref, sf, todo \ {tech})

\* A dict is truthy when it is given and not empty.
Truthy(sf) == sf.given /\ DOMAIN sf.map # {}

ApplyScaleFactors(h, ref, sf) ==
    IF Truthy(sf) THEN ScaleLoop(h, ref, sf.map, DOMAIN sf.map) ELSE h

\* df[start:] and df[:end] with 'YYYY-MM-DD' bounds: label slicing keeps the
\* rows from the first hour of the start day to the last hour of the end day.
FilterStart(df, start) ==
    IF start = None THEN df
    ELSE [df EXCEPT !.rows =
            SelectSeq(@, LAMBDA r : r.t >= start * HoursPerDay)]

FilterEnd(df, end) ==
    IF end = None THEN df
    ELSE [df EXCEPT !.rows =
            SelectSeq(@, LAMBDA r : r.t < (end + 1) * HoursPerDay)]

\* The legend label: the display name and, for a scaled column, its factor
\* (0 stands for a label without the annotation).
Label(base, sf, column) ==
    IF Truthy(sf) /\ column \in DOMAIN sf.map
    THEN [base |-> base, factor |-> sf.map[column]]
    ELSE [base |-> base, factor |-> 0]

BaselineNotAdvanced(y_stack, df, column) == y_stack

\* y_stack += df[column]
AdvanceBaseline(y_stack, df, column) ==
    [i \in 1..Len(y_stack) |-> y_stack[i] + df.rows[i].vals[column]]

\* The loop over df[columns_to_plot].columns: fill_between from y_stack to
\* y_stack + df[column], then the baseline moves up.
RECURSIVE StackLoop(_, _, _, _)
StackLoop(df, columns, y_stack, sf) ==
    IF columns = <<>> THEN [bands |-> <<>>, y_stack |-> y_stack]
    ELSE LET column == Head(columns)
             band == [column |-> column,
                      label |-> Label(DanishName(column), sf, column),
                      color |-> Color(column),
                      bottom |-> y_stack,
                      top |-> [i \in 1..Len(y_stack) |->
                                 y_stack[i] + df.rows[i].vals[column]]]
             rest == StackLoop(df, Tail(columns),
                               AdvanceBaseline(y_stack, df, column), sf)
         IN [bands |-> <<band>> \o rest.bands, y_stack |-> rest.y_stack]

SetMax(S) == CHOOSE x \in S : \A y \in S : y <= x
SetMin(S) == CHOOSE x \in S : \A y \in S : x <= y

DateFormatMonthCut(time_span) ==
    IF time_span <= OneDay THEN "%H:%M"
    ELSE IF time_span <= 30 * HoursPerDay THEN "%d-%m %H:%M"
    ELSE IF time_span <= OneYear THEN "%d-%m-%Y"
    ELSE "%Y-%m"

DateFormatStrictDay(time_span) ==
    IF time_span < OneDay THEN "%H:%M"
    ELSE IF time_span <= TwoWeeks THEN "%d-%m %H:%M"
    ELSE IF time_span <= OneYear THEN "%d-%m-%Y"
    ELSE "%Y-%m"

\* The chain of comparisons of time_span with timedelta(days=1), (days=14)
\* and (days=365).
DateFormat(time_span) ==
    IF time_span <= OneDay THEN "%H:%M"
    ELSE IF time_span <= TwoWeeks THEN "%d-%m %H:%M"
    ELSE IF time_span <= OneYear THEN "%d-%m-%Y"
    ELSE "%Y-%m"

NoLoad == [drawn |-> FALSE, factor |-> 0]

\* The second half of the function, from the load overlay on.  What was drawn
\* before an exception stays drawn on the figure.  "in" on None raises
\* TypeError; a table without rows has a NaN y_max, which plt.ylim rejects
\* with ValueError before the date format is chosen.
LoadAndAxes(df, a, stack) ==
    LET sf == a.scale_factors
        base == [called |-> TRUE, error |-> "none", x |-> [i \in 1..Len(df.rows) |-> df.rows[i].t],
                 bands |-> stack.bands, y_stack |-> stack.y_stack,
                 load |-> NoLoad, date_format |-> "none"]
        load == IF ~a.plot_load THEN NoLoad
                ELSE IF "TotalLoad" \in DOMAIN sf.map
                     THEN [drawn |-> TRUE, factor |-> sf.map["TotalLoad"]]
                     ELSE [drawn |-> TRUE, factor |-> 0]
        index == {df.rows[i].t : i \in 1..Len(df.rows)}
    IN IF a.plot_load /\ ~sf.given
          THEN [base EXCEPT !.error = "TypeError"]
       ELSE IF a.plot_load /\ "TotalLoad" \notin df.cols
          THEN [base EXCEPT !.error = "KeyError"]
       ELSE IF df.rows = <<>>
          THEN [base EXCEPT !.error = "ValueError", !.load = load]
       ELSE [base EXCEPT !.load = load,
                         !.date_format = DateFormat(SetMax(index) - SetMin(index))]

PlotPowerSystem(h, ref, a) ==
    LET c == DfCopy(h, ref)
        h1 == ApplyScaleFactors(c.heap, c.ref, a.scale_factors)
        df == FilterEnd(FilterStart(h1[c.ref], a.start), a.end)
        zeros == [i \in 1..Len(df.rows) |-> 0]
        res == IF ~(Range(a.columns_to_plot) \subseteq df.cols)
               THEN [called |-> TRUE, error |-> "KeyError",
                     x |-> [i \in 1..Len(df.rows) |-> df.rows[i].t],
                     bands |-> <<>>, y_stack |-> zeros,
                     load |-> NoLoad, date_format |-> "none"]
               ELSE LoadAndAxes(df, a,
                        StackLoop(df, a.columns_to_plot, zeros, a.scale_factors))
    IN [heap |-> [r \in DOMAIN h |-> h1[r]],
        scaled |-> h1[c.ref],
        res |-> res]

\* The arguments a caller may pass.
PlotColumns == {"SolarPower", "Biomass", "Hydro"}
ScaleKeys == {"SolarPower", "TotalLoad", "Nuclear"}
Factors(key) == IF key = "Nuclear" THEN {2} ELSE {1, 2}
StartDays == {None, 1}
EndDays == {None, 14}

\* scale_factors is omitted (None) or a dict, the empty one included.
ScaleFactorArgs ==
    {[given |-> FALSE, map |-> <<>>]}
    \cup [given : {TRUE},
          map : {m \in PartialFns(ScaleKeys, {1, 2}) :
                   \A k \in DOMAIN m : m[k] \in Factors(k)}]

PlotArgs ==
    [columns_to_plot : SeqsUpTo(PlotColumns, MaxCols),
     scale_factors : ScaleFactorArgs,
     start : StartDays, end : EndDays, plot_load : BOOLEAN]

\* The tables a caller may hold: hourly totals as load_power_data returns
\* them, indexed by ascending distinct hours.
TableCols == {"SolarPower", "Biomass", "TotalLoad"}
RowVals ==
    {("SolarPower" :> 3) @@ ("Biomass" :> 4) @@ ("TotalLoad" :> 9),
     ("SolarPower" :> 2) @@ ("Biomass" :> 1) @@ ("TotalLoad" :> 5)}
LastHours == {0, 12, 24, 36, 336, 348, 480, 8760, 8772, 9600}

TableRows == [t : LastHours, vals : RowVals]

CallerTables ==
    {[cols |-> TableCols, rows |-> <<r>>] : r \in {q \in TableRows : q.t = 0}}
    \cup {[cols |-> TableCols, rows |-> <<r1, r2>>] :
            r1 \in {q \in TableRows : q.t = 0},
            r2 \in {q \in TableRows : q.t > 0}}

NoArgs ==
    [columns_to_plot |-> <<>>, scale_factors |-> [given |-> FALSE, map |-> <<>>],
     start |-> None, end |-> None, plot_load |-> FALSE]

NotPlotted ==
    [called |-> FALSE, error |-> "none", x |-> <<>>, bands |-> <<>>,
     y_stack |-> <<>>, load |-> NoLoad, date_format |-> "none",
     scaled |-> NoTable]

PlotCall ==
    /\ ~plotRes.called
    /\ \E a \in PlotArgs :
          LET out == PlotPowerSystem(heap, CallerRef, a)
          IN /\ plotArgs' = a
             /\ heap' = out.heap
             /\ plotRes' = [called |-> TRUE, error |-> out.res.error,
                            x |-> out.res.x, bands |-> out.res.bands,
                            y_stack |-> out.res.y_stack, load |-> out.res.load,
                            date_format |-> out.res.date_format,
                            scaled |-> out.scaled]
    /\ UNCHANGED <<http, jsonErrIsRequestException, loadRes>>

(***************************************************************************)
(* Specifications: one call of the loader on an answer of the endpoint,    *)
(* and one call of the renderer on a table the caller holds.               *)
(***************************************************************************)
IdleHttp ==
    [transportOk |-> FALSE, status |-> 0,
     body |-> [parses |-> FALSE, hasRecords |-> FALSE, records |-> <<>>]]

Init ==
    /\ http \in HttpAnswers
    /\ jsonErrIsRequestException \in BOOLEAN
    /\ loadRes = NotCalled
    /\ heap = [r \in {CallerRef} |-> NoTable]
    /\ plotArgs = NoArgs
    /\ plotRes = NotPlotted

Next == LoadCall

Spec == Init /\ [][Next]_vars

InitPlot ==
    /\ http = IdleHttp
    /\ jsonErrIsRequestException = TRUE
    /\ loadRes = NotCalled
    /\ heap \in [{CallerRef} -> CallerTables]
    /\ plotArgs = NoArgs
    /\ plotRes = NotPlotted

NextPlot == PlotCall

SpecPlot == InitPlot /\ [][NextPlot]_vars

(***************************************************************************)
(* Claims about load_power_data (checked under Spec).                      *)
(***************************************************************************)
NoTableReturned == loadRes.kind # "table" /\ loadRes.table = NoTable
Records == http.body.records
RequestSucceeded ==
    http.transportOk /\ 200 <= http.status /\ http.status <= 299

C2_ParseFailureIsProcessingError ==
    /\ (loadRes.called /\ RequestSucceeded
            /\ (~http.body.parses \/ ~http.body.hasRecords))
          => (loadRes.kind = "ProcessingError" /\ NoTableReturned)
    /\ (loadRes.called /\ loadRes.kind # "table")
          => loadRes.kind \in {"FetchError", "ProcessingError"}

StrictlyIncreasing(rows) ==
    \A i \in 1..Len(rows) - 1 : rows[i].t < rows[i + 1].t

\* C3: for every successful answer with a 'records' array, the empty array
\* included, a table is returned whose index is strictly increasing and has
\* exactly one row per distinct HourDK of the records.
C3_OneRowPerHourAscending ==
    (loadRes.called /\ RequestSucceeded /\ http.body.parses
        /\ http.body.hasRecords)
        => /\ loadRes.kind = "table"
           /\ StrictlyIncreasing(loadRes.table.rows)
           /\ Len(loadRes.table.rows)
                = Cardinality({Records[j].HourDK : j \in 1..Len(Records)})
           /\ {loadRes.table.rows[i].t : i \in 1..Len(loadRes.table.rows)}
                = {ToDatetime(Records[j].HourDK) : j \in 1..Len(Records)}

\* What record j adds to field c: its value, or 0 when the field is null or
\* absent.
Contribution(c) ==
    [j \in 1..Len(Records) |->
        IF c \notin DOMAIN Records[j].fields THEN 0
        ELSE IF Records[j].fields[c] = Null THEN 0
        ELSE Records[j].fields[c]]

\* C4: in a returned table, each value is the sum of its field over all the
\* records (price areas) of its hour, null and absent counting as 0, and
\* every field of the records is a column.
C4_RowIsSumOverAreas ==
    (loadRes.called /\ loadRes.kind = "table")
        => /\ \A j \in 1..Len(Records) :
                DOMAIN Records[j].fields \subseteq loadRes.table.cols
           /\ \A i \in 1..Len(loadRes.table.rows) :
                LET row == loadRes.table.rows[i]
                    same == {j \in 1..Len(Records) :
                               ToDatetime(Records[j].HourDK) = row.t}
                IN /\ DOMAIN row.vals = loadRes.table.cols
                   /\ \A c \in loadRes.table.cols :
                        row.vals[c] = SetSum(same, Contribution(c))

C4_Witness ==
    /\ loadRes.called /\ loadRes.kind = "table"
    /\ Len(Records) = 2
    /\ Records[1].HourDK = Records[2].HourDK
    /\ Records[1].PriceArea # Records[2].PriceArea
    /\ "SolarPower" \in DOMAIN Records[1].fields
    /\ "SolarPower" \in DOMAIN Records[2].fields
    /\ Records[1].fields["SolarPower"] = 10
    /\ Records[2].fields["SolarPower"] = 20
    /\ loadRes.table.rows[1].vals["SolarPower"] = 30

(***************************************************************************)
(* Claims about plot_power_system (checked under SpecPlot).                *)
(***************************************************************************)
CallerTable == heap[CallerRef]
CallerIndex == {CallerTable.rows[i].t : i \in 1..Len(CallerTable.rows)}

\* The hours of the caller's table inside the [start, end] bounds.
InBounds ==
    {t \in CallerIndex :
        /\ plotArgs.start = None \/ t >= plotArgs.start * HoursPerDay
        /\ plotArgs.end = None \/ t < (plotArgs.end + 1) * HoursPerDay}

BoundedSpan == SetMax(InBounds) - SetMin(InBounds)

FormatChosen == plotRes.called /\ plotRes.error = "none"

CallerValue(t, c) ==
    LET i == CHOOSE j \in 1..Len(CallerTable.rows) : CallerTable.rows[j].t = t
    IN CallerTable.rows[i].vals[c]

\* The factor a column is plotted with.
ExpFactor(c) ==
    IF plotArgs.scale_factors.given /\ c \in DOMAIN plotArgs.scale_factors.map
    THEN plotArgs.scale_factors.map[c] ELSE 1

EmptyMapping == [given |-> TRUE, map |-> <<>>]

Outcome(a) ==
    LET out == PlotPowerSystem(heap, CallerRef, a)
    IN [called |-> TRUE, error |-> out.res.error, x |-> out.res.x,
        bands |-> out.res.bands, y_stack |-> out.res.y_stack,
        load |-> out.res.load, date_format |-> out.res.date_format,
        scaled |-> out.scaled]

\* C5: with the load overlay on and no scale_factors argument, the call does
\* what it does with an empty mapping: no error from the load check, the
\* bands and the load line with the plain label.
C5_NoneAsEmptyMapping ==
    (plotRes.called /\ plotArgs.plot_load /\ ~plotArgs.scale_factors.given)
        => /\ plotRes.error # "TypeError"
           /\ plotRes = Outcome([plotArgs EXCEPT !.scale_factors = EmptyMapping])

\* C6 as stated: a span of 12 hours gives hour:minute, 20 days gives
\* day-month hour:minute, 400 days gives year-month.
C6_FormatExamples ==
    FormatChosen =>
        /\ BoundedSpan = 12 => plotRes.date_format = "%H:%M"
        /\ BoundedSpan = 20 * HoursPerDay => plotRes.date_format = "%d-%m %H:%M"
        /\ BoundedSpan = 400 * HoursPerDay => plotRes.date_format = "%Y-%m"

\* C6 as amended: a span of 12 hours gives hour:minute, 20 days gives
\* day-month-year, 400 days gives year-month.
C6_FormatExamplesAmended ==
    FormatChosen =>
        /\ BoundedSpan = 12 => plotRes.date_format = "%H:%M"
        /\ BoundedSpan = 20 * HoursPerDay => plotRes.date_format = "%d-%m-%Y"
        /\ BoundedSpan = 400 * HoursPerDay => plotRes.date_format = "%Y-%m"

C6_Witness ==
    FormatChosen /\ BoundedSpan = 20 * HoursPerDay
        /\ plotRes.date_format = "%d-%m-%Y"

\* C7: the bands follow the caller's column order; band k runs from the sum
\* of the columns before it to the sum up to and including it, at every
\* hour in the bounds, and the final baseline is the row sum.
PrefixSum(k, t) ==
    SetSum(1..k, [j \in 1..k |->
        CallerValue(t, plotArgs.columns_to_plot[j])
            * ExpFactor(plotArgs.columns_to_plot[j])])

C7_BandsStackInCallerOrder ==
    (plotRes.called /\ Range(plotArgs.columns_to_plot) \subseteq CallerTable.cols)
        => LET n == Len(plotArgs.columns_to_plot)
               x == plotRes.x
           IN /\ Range(x) = InBounds
              /\ \A i \in 1..Len(x) - 1 : x[i] < x[i + 1]
              /\ Len(plotRes.bands) = n
              /\ \A k \in 1..n :
                    /\ plotRes.bands[k].column = plotArgs.columns_to_plot[k]
                    /\ Len(plotRes.bands[k].top) = Len(x)
                    /\ Len(plotRes.bands[k].bottom) = Len(x)
                    /\ \A i \in 1..Len(x) :
                          /\ plotRes.bands[k].bottom[i] = PrefixSum(k - 1, x[i])
                          /\ plotRes.bands[k].top[i] = PrefixSum(k, x[i])
              /\ Len(plotRes.y_stack) = Len(x)
              /\ \A i \in 1..Len(x) : plotRes.y_stack[i] = PrefixSum(n, x[i])

C7_Witness ==
    /\ plotRes.called
    /\ plotArgs.columns_to_plot = <<"SolarPower", "Biomass">>
    /\ ~Truthy(plotArgs.scale_factors)
    /\ Len(plotRes.x) = 2
    /\ CallerTable.rows[1].vals["SolarPower"] = 3
    /\ CallerTable.rows[1].vals["Biomass"] = 4
    /\ plotRes.bands[1].top[1] = 3
    /\ plotRes.bands[2].top[1] = 7

\* C8: no call changes the caller's table, whether it completes or raises.
C8_CallerTableUntouched == [][heap'[CallerRef] = heap[CallerRef]]_vars

C8_Witness ==
    /\ plotRes.called
    /\ plotRes.scaled # CallerTable
    /\ plotArgs.start # None
    /\ Len(plotRes.x) < Len(CallerTable.rows)
    /\ plotRes.error = "none"

\* C9 as stated: below one day hour:minute, from one day to two weeks
\* day-month hour:minute, above two weeks to one year day-month-year, above
\* one year year-month.
C9_FormatThresholds ==
    FormatChosen =>
        plotRes.date_format =
            (IF BoundedSpan < OneDay THEN "%H:%M"
             ELSE IF BoundedSpan <= TwoWeeks THEN "%d-%m %H:%M"
             ELSE IF BoundedSpan <= OneYear THEN "%d-%m-%Y"
             ELSE "%Y-%m")

\* C9 as amended: up to and including one day hour:minute, above one day to
\* two weeks day-month hour:minute, above two weeks to one year
\* day-month-year, above one year year-month.
C9_FormatThresholdsAmended ==
    FormatChosen =>
        /\ BoundedSpan \in 0..OneDay <=> plotRes.date_format = "%H:%M"
        /\ BoundedSpan \in (OneDay + 1)..TwoWeeks
              <=> plotRes.date_format = "%d-%m %H:%M"
        /\ BoundedSpan \in (TwoWeeks + 1)..OneYear
              <=> plotRes.date_format = "%d-%m-%Y"
        /\ BoundedSpan > OneYear <=> plotRes.date_format = "%Y-%m"

C9_Witness ==
    FormatChosen /\ BoundedSpan = OneDay /\ plotRes.date_format = "%H:%M"

\* The call with the scale keys that name no column left out.
KnownKeysOnly(a) ==
    [a EXCEPT !.scale_factors.map =
        [k \in DOMAIN @ \cap CallerTable.cols |-> @[k]]]

\* C10: scaling multiplies the columns that are keys of the mapping by their
\* factors and leaves the others alone; keys that name no column change
\* nothing and raise nothing; factors of 1 leave the table as it was.
C10_ScalingByFactor ==
    plotRes.called =>
        /\ plotRes.scaled.cols = CallerTable.cols
        /\ Len(plotRes.scaled.rows) = Len(CallerTable.rows)
        /\ \A i \in 1..Len(CallerTable.rows) :
              /\ plotRes.scaled.rows[i].t = CallerTable.rows[i].t
              /\ \A c \in CallerTable.cols :
                    plotRes.scaled.rows[i].vals[c]
                        = CallerTable.rows[i].vals[c] * ExpFactor(c)
        /\ (\A k \in DOMAIN plotArgs.scale_factors.map :
                plotArgs.scale_factors.map[k] = 1)
              => plotRes.scaled = CallerTable
        /\ plotRes = Outcome(KnownKeysOnly(plotArgs))

C10_Witness ==
    /\ plotRes.called
    /\ DOMAIN plotArgs.scale_factors.map = {"SolarPower", "Nuclear"}
    /\ plotArgs.scale_factors.map["SolarPower"] = 2
    /\ plotRes.scaled.rows[1].vals["SolarPower"]
          = 2 * CallerTable.rows[1].vals["SolarPower"]
    /\ plotRes.error = "none"

====
